---------------------------- MODULE Spec2Model ----------------------------
(***************************************************************************)
(* Model of the elliptics blob backend (src/example/blob/backend.c): two   *)
(* append-only log files (data, history), their tail offsets, the          *)
(* in-memory hash index, and the command handlers that run on the          *)
(* transport's worker threads.                                             *)
(*                                                                         *)
(* A log file is a sequence of cells; a cell is a natural number.  The     *)
(* on-disk header (struct blob_disk_control) is three cells: id, flags,    *)
(* size.  File offsets are 0-based as in the code: the cell at offset o of *)
(* file f is f[o + 1].                                                     *)
(***************************************************************************)
EXTENDS Integers, Sequences, FiniteSets, TLC

\* ------------------------------------------------------------------ bounds

\* The number of WRITE commands the environment sends: to one worker
\* thread, to one worker thread with failing system calls, to two threads.
MaxWrites == 2
MaxWritesFault == 2
MaxWritesConc == 2
\* The number of system calls and allocations that fail.
MaxFaults == 1

\* ------------------------------------------------------- program constants

\* sizeof(struct blob_disk_control) in cells: id, flags, size.
HdrSize == 3

\* BLOB_DISK_CTL_REMOVE: bit 0 of the header's flags.
BLOB_DISK_CTL_REMOVE == 1

\* sizeof(struct dnet_history_entry) in cells: offset, size.
EntrySize == 2

\* errno values.
ENOENT == 2
EIO == 5
ENOMEM == 12
EINVAL == 22
ENOTSUP == 95

\* ------------------------------------------------------------------ inputs

Threads == {1, 2}
Ids == {1, 2}
\* Payloads of WRITE commands.
Payloads == {<<7>>, <<8, 9>>}
\* IO flags a client sets on a WRITE.
WriteFlags == {{}, {"NO_HISTORY_UPDATE"}, {"HISTORY"}}
\* io.offset of a WRITE (recorded in the history entry only).
WriteOffsets == {0, 3}
\* io.offset, io.size of a READ, and the room in the caller's buffer
\* (attr->size - sizeof(struct dnet_io_attr); 0 selects the zero-copy path).
ReadReqs == {[offset |-> 0, size |-> 0, buf |-> 0],
             [offset |-> 0, size |-> 0, buf |-> 8],
             [offset |-> 0, size |-> 4, buf |-> 8],
             [offset |-> 1, size |-> 1, buf |-> 1],
             [offset |-> 0, size |-> 1, buf |-> 0]}
\* The READ requests for a whole record.
WholeReads == {rq \in ReadReqs : rq.offset = 0 /\ rq.size = 0}
\* (data_block_size, history_block_size) configurations.
BlockSizes == {<<0, 0>>, <<2, 4>>}

VARIABLES
    data_bsize, history_bsize,   \* blob_backend.data_bsize, .history_bsize
    datafd, historyfd,           \* contents of the two log files
    data_offset, history_offset, \* blob_backend.data_offset, .history_offset
    hash,                        \* blob_backend.hash: key -> [offset, size]
    lock,                        \* blob_backend.lock: 0 or the holding thread
    th,                          \* per worker thread: position and locals
    faults_left,                 \* environment: system calls that may still fail
    writes_left,                 \* environment: WRITE commands still to come
    nthreads,                    \* environment: number of worker threads
    ids,                         \* environment: the ids clients use
    reads,                       \* environment: the READ requests clients send
    offsets,                     \* environment: the io.offset values of WRITEs
    payloads,                    \* environment: the payloads of WRITEs
    open_offset,                 \* history: the tails set when the files were opened
    shutdown_hash,               \* history: the index at the last shutdown
    scanned,                     \* history: no command ran since the startup scan
    appended,                    \* history: per log, the records appended, in order
    rproc,                       \* dnet_recovery: per invocation, position and options
    rfs,                         \* dnet_recovery: the tmp directories and their files
    mdiff,                       \* merge recovery: the diff of two streams
    dcdiff,                      \* dc recovery: the diff of the replicas' streams
    ncache,                      \* dnet_node.cache: whether there is one, and its m_hmap
    creply                       \* cache: the last command and what it returned

vars == <<data_bsize, history_bsize, datafd, historyfd, data_offset,
          history_offset, hash, lock, th, faults_left, writes_left, nthreads,
          ids, reads, offsets, payloads, open_offset,
          shutdown_hash, scanned, appended, rproc, rfs, mdiff, dcdiff, ncache, creply>>

\* ----------------------------------------------------------------- helpers

Min(a, b) == IF a < b THEN a ELSE b
Max(a, b) == IF a > b THEN a ELSE b

\* pwrite(fd, cells, Len(cells), off): the file afterwards.  Writing past the
\* end extends the file; a hole reads as zero.
Pwrite(f, off, cells) ==
    IF cells = <<>> THEN f ELSE
    [i \in 1..Max(Len(f), off + Len(cells)) |->
        IF i > off /\ i <= off + Len(cells) THEN cells[i - off]
        ELSE IF i <= Len(f) THEN f[i] ELSE 0]

\* pread(fd, buf, n, off): the cells read, short at the end of the file.
Pread(f, off, n) ==
    IF off >= Len(f) THEN <<>>
    ELSE SubSeq(f, off + 1, Min(Len(f), off + n))

Prefix(s, k) == SubSeq(s, 1, k)

Zeros(n) == [i \in 1..n |-> 0]

\* The header cells of struct blob_disk_control, and the header read at
\* an offset.
DiskControl(id, flags, size) == <<id, flags, size>>
HeaderAt(f, pos) == [id |-> f[pos + 1], flags |-> f[pos + 2], size |-> f[pos + 3]]

FileOf(hist) == IF hist = 1 THEN historyfd ELSE datafd
TailOf(hist) == IF hist = 1 THEN history_offset ELSE data_offset
BsizeOf(hist) == IF hist = 1 THEN history_bsize ELSE data_bsize

\* ------------------------------------------------------------------- index

Key(id, hist) == <<id, hist>>

\* dnet_hash_lookup: whether the key is present.
dnet_hash_lookup(h, key) == key \in DOMAIN h

\* dnet_hash_replace: insert or replace.
dnet_hash_replace(h, key, ctl) ==
    [k \in DOMAIN h \cup {key} |-> IF k = key THEN ctl ELSE h[k]]

EmptyHash == [k \in {} |-> 0]


\* ---------------------------------------------------------- low-level write

\* Mutant of blob_write_low_level: without "if (!err) err = -EINVAL", a
\* pwrite that returned 0 with errno 0 ends the loop with err 0.
blob_write_low_level_zero(f, data, offset) ==
    {[file |-> Pwrite(f, offset, data), err |-> 0, errno |-> 0, fault |-> FALSE]}
    \cup
    IF faults_left > 0 /\ Len(data) > 0
    THEN {[file |-> Pwrite(f, offset, Prefix(data, k)), err |-> e[1], errno |-> e[2],
           fault |-> TRUE] :
             k \in 0..(Len(data) - 1), e \in {<<-EIO, EIO>>, <<0, 0>>}}
    ELSE {}

\* blob_write_low_level: loops pwrite until the buffer is written.  The
\* outcomes: everything written (err 0), or a pwrite failed after a prefix
\* of k cells had been written; pwrite returning -1 sets errno (EIO) and
\* gives -errno, pwrite returning 0 gives -EINVAL when errno was 0.
blob_write_low_level(f, data, offset) ==
    {[file |-> Pwrite(f, offset, data), err |-> 0, errno |-> 0, fault |-> FALSE]}
    \cup
    IF faults_left > 0 /\ Len(data) > 0
    THEN {[file |-> Pwrite(f, offset, Prefix(data, k)), err |-> e[1], errno |-> e[2],
           fault |-> TRUE] :
             k \in 0..(Len(data) - 1), e \in {<<-EIO, EIO>>, <<-EINVAL, 0>>}}
    ELSE {}

\* Mutant of PadSize: pads by the remainder instead of its complement.
PadSize_remainder(len, bsize) ==
    IF bsize = 0 THEN 0 ELSE len % bsize

\* The number of zero cells blob_write_raw appends after len cells of
\* header and payload: bsize - (len % bsize), written while it is nonzero
\* and less than bsize.
PadSize(len, bsize) ==
    IF bsize = 0 THEN 0
    ELSE LET size == bsize - (len % bsize)
         IN IF size /= 0 /\ size < bsize THEN size ELSE 0

\* -------------------------------------------------------------- startup scan

\* dnet_blob_iter: the callback of the startup scan for one record header.
dnet_blob_iter(h, dc, position, hist) ==
    IF dc.flags % 2 = BLOB_DISK_CTL_REMOVE THEN h
    ELSE dnet_hash_replace(h, Key(dc.id, hist),
                           [offset |-> position, size |-> dc.size + HdrSize])

\* blob_iterate: the sequential scan of a log from an offset.  Stops at the
\* end of the file or at a header whose size exceeds the rest of the file;
\* otherwise hands the header to the callback and advances past header,
\* payload and alignment padding.
RECURSIVE blob_iterate(_, _, _, _, _)
blob_iterate(f, bsize, pos, hist, h) ==
    IF pos + HdrSize > Len(f) THEN h
    ELSE LET dc == HeaderAt(f, pos)
         IN IF dc.size > Len(f) - pos - HdrSize THEN h
            ELSE blob_iterate(f, bsize,
                     pos + HdrSize + dc.size + PadSize(HdrSize + dc.size, bsize),
                     hist, dnet_blob_iter(h, dc, pos, hist))

\* The offset blob_iterate stops at: the end of the last complete record.
RECURSIVE blob_iterate_end(_, _, _)
blob_iterate_end(f, bsize, pos) ==
    IF pos + HdrSize > Len(f) THEN pos
    ELSE LET dc == HeaderAt(f, pos)
         IN IF dc.size > Len(f) - pos - HdrSize THEN pos
            ELSE blob_iterate_end(f, bsize,
                     pos + HdrSize + dc.size + PadSize(HdrSize + dc.size, bsize))

\* dnet_blob_config_init: the index after scanning the data log, then the
\* history log.
dnet_blob_config_init(df, hf, dbs, hbs) ==
    blob_iterate(hf, hbs, 0, 1, blob_iterate(df, dbs, 0, 0, EmptyHash))

\* ------------------------------------------------------------- thread state

IdleThread ==
    [pc |-> "idle", cmd |-> "none",
     req |-> [id |-> 0, flags |-> {}, offset |-> 0, size |-> 0, data |-> <<>>, buf |-> 0],
     id |-> 0, flags |-> {}, ioffset |-> 0, iosize |-> 0, data |-> <<>>,
     hist |-> 0, ctl |-> [offset |-> 0, size |-> 0], offset |-> 0, size |-> 0,
     err |-> 0, errno |-> 0, failed |-> FALSE,
     pre |-> [tail |-> 0, hash |-> EmptyHash],
     start |-> [files |-> <<<<>>, <<>>>>, tails |-> <<0, 0>>, nrec |-> <<0, 0>>],
     old |-> [found |-> FALSE, offset |-> 0],
     out |-> <<>>, ret |-> 0]

Active == 1..nthreads

InitWith(faults, n, writes, idset, readset, offs, datas, bsizes) ==
    /\ \E bs \in bsizes : data_bsize = bs[1] /\ history_bsize = bs[2]
    /\ ids = idset
    /\ reads = readset
    /\ offsets = offs
    /\ payloads = datas
    /\ datafd = <<>>
    /\ historyfd = <<>>
    /\ data_offset = 0
    /\ history_offset = 0
    /\ hash = EmptyHash
    /\ lock = 0
    /\ th = [t \in Threads |-> IdleThread]
    /\ faults_left = faults
    /\ writes_left = writes
    /\ nthreads = n
    /\ open_offset = <<0, 0>>
    /\ shutdown_hash = EmptyHash
    /\ scanned = FALSE
    /\ appended = <<<<>>, <<>>>>

\* ------------------------------------------------- dnet_recovery: its state

\* The invocations of src/recovery/dnet_recovery that may run side by side.
Procs == {1, 2}
\* The tmp directories (-D): 1 exists, 2 has to be created.
Dirs == {1, 2}

\* TMP_FILE_PREFIXES.
TMP_FILE_PREFIXES == {"iterator_", "diff_", "merge_"}

\* Directory entries: a name is (what it starts with, the rest).
File(prefix, rest, isfile) == [prefix |-> prefix, rest |-> rest, isfile |-> isfile]
LockFile == File("dnet_recovery", ".lock", TRUE)
LogFile == File("dnet_recovery", ".log", TRUE)
ScratchFiles == {File(pre, "1", TRUE) : pre \in TMP_FILE_PREFIXES}
\* What an earlier run may have left in its tmp directory: its scratch
\* files, the statistics file, its log and lock files, and a directory whose
\* name starts like a scratch file.
StatsFile == File("stat", "s.txt", TRUE)
ScratchDir == File("iterator_", "d", FALSE)
Leftovers == ScratchFiles \cup {StatsFile, ScratchDir, LogFile, LockFile}

\* An invocation that is not running.  made records what the invocation has
\* created, truncated or removed in the file system since it started.
NoProc ==
    [pc |-> "none", rc |-> 0, dir |-> 1, lock |-> TRUE, result |-> FALSE, fatal |-> "none",
     made |-> {}]

\* ------------------------------------------- recovery coordinators: state

\* Keys, timestamps and sizes of the records an iterator streams.
Keys == {1, 2, 3}
Timestamps == {5, 7}
Sizes == {4, 10}
\* The replicas of dc recovery, by node address.
Replicas == {1, 2, 3}
DcKeys == {1, 2}

\* A record of an iterator's stream.
Rec(id, ts, size) == [id |-> id, ts |-> ts, size |-> size]

\* No diff is being computed.
NoMerge == [local |-> <<>>, remote |-> <<>>, i |-> 1, j |-> 1, out |-> {}, on |-> FALSE]
NoDc == [streams |-> [r \in Replicas |-> <<>>], pos |-> [r \in Replicas |-> 1],
         out |-> {}, on |-> FALSE]
DiffIdle == mdiff = NoMerge /\ dcdiff = NoDc

\* ------------------------------------------------------------ cache: state

\* The ids of cache commands (cmd->id.id and io->id) and the cells an
\* out-of-bounds read of a cached buffer may give.
CacheIds == {1, 2}
Junk == {0, 99}
\* io.offset and io.size of a cache READ.
CacheReads == {<<0, 0>>, <<0, 1>>, <<1, 1>>, <<0, 3>>}

EmptyCache == [k \in {} |-> <<>>]
NoReply == [cmd |-> "none", cmd_id |-> 0, io_id |-> 0, err |-> 0, out |-> <<>>,
            before |-> EmptyCache]
\* A node without a cache on which no cache command has run.
CacheIdle == ncache = [present |-> FALSE, hmap |-> EmptyCache] /\ creply = NoReply

\* No invocation of dnet_recovery has run.
RecoveryStopped ==
    /\ DiffIdle
    /\ CacheIdle
    /\ rproc = [p \in Procs |-> NoProc]
    /\ rfs = [d \in Dirs |-> [exists |-> d = 1,
                              files |-> {}, flock |-> {}]]

Init ==
    InitWith(0, 1, MaxWrites, Ids, ReadReqs, WriteOffsets, Payloads, BlockSizes)
    /\ RecoveryStopped
InitFault ==
    InitWith(MaxFaults, 1, MaxWritesFault, {1}, WholeReads, {0}, {<<8, 9>>}, BlockSizes)
    /\ RecoveryStopped
InitConc ==
    InitWith(0, 2, MaxWritesConc, {1}, WholeReads, {0}, {<<8, 9>>}, {<<2, 4>>})
    /\ RecoveryStopped

\* What no command of the backend changes: its configuration, the inputs
\* of the environment, and the state of dnet_recovery, another program.
config ==
    <<data_bsize, history_bsize, nthreads, ids, reads, offsets, payloads, rproc, rfs,
      mdiff, dcdiff, ncache, creply>>
\* A step in which n system calls failed.
Faulted(n) == faults_left' = faults_left - n

\* The records of one id appended to a log, oldest first.
Written(id, hist) == SelectSeq(appended[hist + 1], LAMBDA r : r.id = id)
Last(s) == s[Len(s)]
files == <<datafd, historyfd>>
tails == <<data_offset, history_offset>>

\* -------------------------------------------------------------- blob_write

\* The history entry blob_write builds for a data write
\* (dnet_setup_history_entry): the write's logical offset and size.
dnet_setup_history_entry(size, offset) == <<offset, size>>

\* blob_backend_command_handler, DNET_CMD_WRITE: blob_write up to its first
\* call.  With DNET_IO_FLAGS_HISTORY the payload goes to the history update,
\* otherwise to blob_write_raw on the data log.
blob_write(t) ==
    /\ t \in Active
    /\ th[t].pc = "idle"
    /\ writes_left > 0
    /\ writes_left' = writes_left - 1
    /\ UNCHANGED faults_left
    /\ \E id \in ids, fl \in WriteFlags, off \in offsets, data \in payloads :
          th' = [th EXCEPT ![t] =
                    [IdleThread EXCEPT
                        !.pc = IF "HISTORY" \in fl THEN "history_meta" ELSE "raw_lock",
                        !.cmd = "write",
                        !.req = [id |-> id, flags |-> fl, offset |-> off,
                                 size |-> Len(data), data |-> data, buf |-> 0],
                        !.id = id, !.flags = fl, !.ioffset = off,
                        !.iosize = Len(data), !.data = data, !.hist = 0,
                        !.start = [files |-> files, tails |-> tails,
                                   nrec |-> <<Len(appended[1]), Len(appended[2])>>]]]
    /\ scanned' = FALSE
    /\ shutdown_hash' = EmptyHash
    /\ UNCHANGED <<config, files, tails, hash, lock, open_offset, appended>>

\* Mutant of blob_write_raw_lock: the tail is read without waiting for the
\* mutex.
blob_write_raw_lock_nowait(t) ==
    /\ th[t].pc = "raw_lock"
    /\ lock' = t
    /\ th' = [th EXCEPT ![t].pc = "raw_header",
                        ![t].ctl = [offset |-> TailOf(th[t].hist), size |-> 0],
                        ![t].offset = TailOf(th[t].hist),
                        ![t].failed = FALSE,
                        ![t].pre = [tail |-> TailOf(th[t].hist), hash |-> hash]]
    /\ UNCHANGED <<config, files, tails, hash, open_offset, shutdown_hash, scanned, appended,
                   faults_left, writes_left>>

\* Mutant of blob_write_raw_lock: a key that is in the index is rewritten
\* at the offset of its record.
blob_write_raw_lock_inplace(t) ==
    /\ th[t].pc = "raw_lock"
    /\ lock = 0
    /\ lock' = t
    /\ LET key == Key(th[t].id, th[t].hist)
           at == IF dnet_hash_lookup(hash, key) THEN hash[key].offset
                 ELSE TailOf(th[t].hist)
       IN th' = [th EXCEPT ![t].pc = "raw_header",
                           ![t].ctl = [offset |-> at, size |-> 0],
                           ![t].offset = at,
                           ![t].failed = FALSE,
                           ![t].pre = [tail |-> TailOf(th[t].hist), hash |-> hash]]
    /\ UNCHANGED <<config, files, tails, hash, open_offset, shutdown_hash, scanned, appended,
                   faults_left, writes_left>>

\* Mutant of blob_write_raw_lock: the index entry is inserted before the
\* record is written.
blob_write_raw_lock_publish(t) ==
    /\ th[t].pc = "raw_lock"
    /\ lock = 0
    /\ lock' = t
    /\ th' = [th EXCEPT ![t].pc = "raw_header",
                        ![t].ctl = [offset |-> TailOf(th[t].hist), size |-> 0],
                        ![t].offset = TailOf(th[t].hist),
                        ![t].failed = FALSE,
                        ![t].pre = [tail |-> TailOf(th[t].hist), hash |-> hash]]
    /\ hash' = dnet_hash_replace(hash, Key(th[t].id, th[t].hist),
                   [offset |-> TailOf(th[t].hist),
                    size |-> HdrSize + th[t].iosize
                               + PadSize(HdrSize + th[t].iosize, BsizeOf(th[t].hist))])
    /\ UNCHANGED <<config, files, tails, open_offset, shutdown_hash, scanned, appended,
                   faults_left, writes_left>>

\* blob_write_raw, lines 111-123: take the mutex and read the log's tail.
blob_write_raw_lock(t) ==
    /\ th[t].pc = "raw_lock"
    /\ lock = 0
    /\ lock' = t
    /\ th' = [th EXCEPT ![t].pc = "raw_header",
                        ![t].ctl = [offset |-> TailOf(th[t].hist), size |-> 0],
                        ![t].offset = TailOf(th[t].hist),
                        ![t].failed = FALSE,
                        ![t].pre = [tail |-> TailOf(th[t].hist), hash |-> hash]]
    /\ UNCHANGED <<config, files, tails, hash, open_offset, shutdown_hash, scanned, appended,
                   faults_left, writes_left>>

\* One blob_write_low_level call of blob_write_raw on the log it writes:
\* on success the local offset advances and the next step follows, on
\* failure the error is kept and the code jumps to err_out_unlock.
RawWrite(t, cells, next) ==
    \E o \in blob_write_low_level(FileOf(th[t].hist), cells, th[t].offset) :
       /\ IF th[t].hist = 1
          THEN historyfd' = o.file /\ UNCHANGED datafd
          ELSE datafd' = o.file /\ UNCHANGED historyfd
       /\ th' = [th EXCEPT
                    ![t].pc = IF o.err = 0 THEN next ELSE "raw_unlock",
                    ![t].offset = IF o.err = 0 THEN @ + Len(cells) ELSE @,
                    ![t].err = o.err,
                    ![t].errno = IF o.errno /= 0 THEN o.errno ELSE @,
                    ![t].failed = @ \/ o.fault]
       /\ Faulted(IF o.fault THEN 1 ELSE 0)
       /\ UNCHANGED <<config, tails, hash, lock, open_offset, shutdown_hash, scanned, appended,
                       writes_left>>

\* blob_write_raw, lines 124-127: the header.
blob_write_raw_header(t) ==
    /\ th[t].pc = "raw_header"
    /\ RawWrite(t, DiskControl(th[t].id, 0, th[t].iosize), "raw_data")

\* blob_write_raw, lines 129-132: the payload.
blob_write_raw_data(t) ==
    /\ th[t].pc = "raw_data"
    /\ RawWrite(t, th[t].data, "raw_pad")

\* blob_write_raw, lines 134-150: the padding up to the block size.
blob_write_raw_pad(t) ==
    /\ th[t].pc = "raw_pad"
    /\ RawWrite(t, Zeros(PadSize(th[t].offset - th[t].ctl.offset, BsizeOf(th[t].hist))),
                "raw_hash")

\* dnet_hash_replace as blob_write_raw calls it: 0, or -ENOMEM with the
\* table left as it was.
HashReplaceErrs == IF faults_left > 0 THEN {0, -ENOMEM} ELSE {0}

\* Mutant of NewTail: the tail assigned (=) instead of advanced (+=).
NewTail_assigned(tail, ctl_size) == ctl_size

\* Mutant of NewTail: the tail is set back to the start of the record.
NewTail_rewound(tail, ctl_size) == tail - Min(tail, ctl_size)

\* The tail blob_write_raw publishes after a record of ctl_size cells
\* (lines 160-163).
NewTail(tail, ctl_size) == tail + ctl_size

\* blob_write_raw, lines 151-163: the index entry and the new tail.
blob_write_raw_hash(t) ==
    /\ th[t].pc = "raw_hash"
    /\ LET ctl == [offset |-> th[t].ctl.offset, size |-> th[t].offset - th[t].ctl.offset]
       IN \E e \in HashReplaceErrs :
          /\ th' = [th EXCEPT ![t].pc = "raw_unlock", ![t].ctl = ctl, ![t].err = e,
                              ![t].failed = @ \/ (e /= 0)]
          /\ Faulted(IF e /= 0 THEN 1 ELSE 0)
          /\ IF e = 0
             THEN /\ hash' = dnet_hash_replace(hash, Key(th[t].id, th[t].hist), ctl)
                  /\ appended' = [appended EXCEPT ![th[t].hist + 1] =
                                     Append(@, [id |-> th[t].id, offset |-> ctl.offset,
                                                size |-> ctl.size, data |-> th[t].data])]
                  /\ IF th[t].hist = 1
                     THEN /\ history_offset' = NewTail(history_offset, ctl.size)
                          /\ UNCHANGED data_offset
                     ELSE /\ data_offset' = NewTail(data_offset, ctl.size)
                          /\ UNCHANGED history_offset
             ELSE UNCHANGED <<hash, tails, appended>>
    /\ UNCHANGED <<config, files, lock, open_offset, shutdown_hash, scanned, writes_left>>

\* Mutant of blob_write_raw_unlock: DNET_IO_FLAGS_NO_HISTORY_UPDATE is not
\* looked at.
blob_write_raw_unlock_always(t) ==
    /\ th[t].pc = "raw_unlock"
    /\ lock' = 0
    /\ th' = [th EXCEPT ![t] =
          IF th[t].hist = 1
          THEN [@ EXCEPT !.pc = "done",
                         !.ret = IF th[t].err /= 0 THEN 0 - th[t].errno ELSE 0]
          ELSE IF th[t].err /= 0
          THEN [@ EXCEPT !.pc = "done", !.ret = th[t].err]
          ELSE [@ EXCEPT !.pc = "history_meta",
                         !.data = dnet_setup_history_entry(th[t].iosize, th[t].ioffset),
                         !.flags = (@ \cup {"APPEND", "HISTORY"}) \ {"META"},
                         !.iosize = EntrySize,
                         !.ioffset = 0]]
    /\ UNCHANGED <<config, files, tails, hash, open_offset, shutdown_hash, scanned, appended,
                   faults_left, writes_left>>

\* blob_write_raw, lines 168-170, and the caller's next step.  Called from
\* blob_write (lines 277-294): an error ends the command; otherwise, unless
\* NO_HISTORY_UPDATE is set, the history entry is built and the history
\* update follows.  Called from blob_write_history_meta (lines 241-249): an
\* error is replaced by -errno.
blob_write_raw_unlock(t) ==
    /\ th[t].pc = "raw_unlock"
    /\ lock' = 0
    /\ th' = [th EXCEPT ![t] =
          IF th[t].hist = 1
          THEN [@ EXCEPT !.pc = "done",
                         !.ret = IF th[t].err /= 0 THEN 0 - th[t].errno ELSE 0]
          ELSE IF th[t].err /= 0
          THEN [@ EXCEPT !.pc = "done", !.ret = th[t].err]
          ELSE IF "NO_HISTORY_UPDATE" \in th[t].flags
          THEN [@ EXCEPT !.pc = "done", !.ret = 0]
          ELSE [@ EXCEPT !.pc = "history_meta",
                         !.data = dnet_setup_history_entry(th[t].iosize, th[t].ioffset),
                         !.flags = (@ \cup {"APPEND", "HISTORY"}) \ {"META"},
                         !.iosize = EntrySize,
                         !.ioffset = 0]]
    /\ UNCHANGED <<config, files, tails, hash, open_offset, shutdown_hash, scanned, appended,
                   faults_left, writes_left>>

\* backend_process_meta: the new history blob, the old one with the
\* request's data appended.
backend_process_meta(hdata, data) == hdata \o data

\* Mutant of MarkRemoved: the flag is not set.
MarkRemoved_noop(dc) == DiskControl(dc.id, dc.flags, dc.size)

\* Mutant of MarkRemoved: the size field is cleared with the record.
MarkRemoved_resize(dc) == DiskControl(dc.id, BLOB_DISK_CTL_REMOVE, 0)

\* The header with BLOB_DISK_CTL_REMOVE set (flags |= REMOVE).
MarkRemoved(dc) ==
    DiskControl(dc.id, IF dc.flags % 2 = 1 THEN dc.flags ELSE dc.flags + BLOB_DISK_CTL_REMOVE,
                dc.size)

\* The places blob_write_history_meta can fail at.
MetaFaults(found) ==
    IF faults_left = 0 THEN {"none"}
    ELSE {"none", "malloc", "process_meta"}
         \cup IF found THEN {"pread", "pwrite", "pwrite_short"} ELSE {}

\* blob_write_history_meta, lines 184-240: look the history record up; when
\* there is one read it, mark its header REMOVED in place and strip the
\* header; build the new blob; go on to blob_write_raw on the history log.
\* A failed system call gives -errno: errno is EIO after a call that
\* returned -1 and is whatever it was after a short read or write.
blob_write_history_meta(t) ==
    /\ th[t].pc = "history_meta"
    /\ LET key == Key(th[t].id, 1)
           found == dnet_hash_lookup(hash, key)
           ctl == IF found THEN hash[key] ELSE [offset |-> 0, size |-> 0]
           hdata == Pread(historyfd, ctl.offset, ctl.size)
           dc == HeaderAt(hdata, 0)
           old == IF found THEN SubSeq(hdata, HdrSize + 1, HdrSize + dc.size) ELSE <<>>
           new_hdata == backend_process_meta(old, th[t].data)
       IN \E fp \in MetaFaults(found) :
          /\ Faulted(IF fp = "none" THEN 0 ELSE 1)
          /\ historyfd' =
                IF found /\ Len(hdata) /= ctl.size THEN historyfd
                ELSE IF found /\ fp \in {"none", "process_meta"}
                THEN Pwrite(historyfd, ctl.offset, MarkRemoved(dc))
                ELSE IF found /\ fp = "pwrite_short"
                THEN Pwrite(historyfd, ctl.offset, Prefix(MarkRemoved(dc), 2))
                ELSE historyfd
          /\ th' = [th EXCEPT ![t] =
                CASE found /\ Len(hdata) /= ctl.size ->
                       [@ EXCEPT !.pc = "done", !.ret = 0 - th[t].errno, !.failed = TRUE]
                  [] fp = "none" ->
                       [@ EXCEPT !.pc = "raw_lock", !.hist = 1, !.data = new_hdata,
                                 !.iosize = Len(new_hdata), !.size = Len(new_hdata),
                                 !.old = [found |-> found, offset |-> ctl.offset]]
                  [] fp \in {"malloc", "process_meta"} ->
                       [@ EXCEPT !.pc = "done", !.ret = -ENOMEM, !.failed = TRUE]
                  [] fp = "pwrite_short" ->
                       [@ EXCEPT !.pc = "done", !.ret = 0 - th[t].errno, !.failed = TRUE]
                  [] OTHER ->
                       [@ EXCEPT !.pc = "done", !.ret = -EIO, !.errno = EIO,
                                 !.failed = TRUE]]
    /\ UNCHANGED <<config, datafd, tails, hash, lock, open_offset, shutdown_hash,
                   scanned, appended, writes_left>>

\* --------------------------------------------------------------- blob_read

\* Mutant of NotFoundReply: success with a cell of reply data.
NotFoundReply_partial(start, err) ==
    [start EXCEPT !.pc = "done", !.ret = 0, !.err = 0, !.out = <<0>>]

\* blob_read, lines 326-330 and 406-407: the lookup's error goes straight to
\* err_out_exit and is returned; nothing was written to the reply.
NotFoundReply(start, err) ==
    [start EXCEPT !.pc = "done", !.ret = err, !.err = err]

\* blob_backend_command_handler, DNET_CMD_READ: blob_read, lines 306-335.
\* Look the key up; -ENOENT when it is absent.  io.size 0 stands for the
\* indexed size less the header; the read starts io.offset past the header.
blob_read(t) ==
    /\ t \in Active
    /\ th[t].pc = "idle"
    /\ \E id \in ids, hist \in {0, 1}, rq \in reads :
          LET off == rq.offset
              sz == rq.size
              buf == rq.buf
              key == Key(id, hist)
              found == dnet_hash_lookup(hash, key)
              ctl == IF found THEN hash[key] ELSE [offset |-> 0, size |-> 0]
              size == IF sz = 0 THEN ctl.size - HdrSize ELSE sz
              start == [IdleThread EXCEPT
                          !.cmd = "read",
                          !.req = [id |-> id, flags |-> IF hist = 1 THEN {"HISTORY"} ELSE {},
                                   offset |-> off, size |-> sz, data |-> <<>>, buf |-> buf],
                          !.id = id, !.hist = hist, !.ioffset = off, !.iosize = sz]
          IN th' = [th EXCEPT ![t] =
                IF found
                THEN [start EXCEPT !.pc = "read_io", !.ctl = ctl, !.size = size,
                                   !.offset = ctl.offset + HdrSize + off]
                ELSE NotFoundReply(start, -ENOENT)]
    /\ scanned' = FALSE
    /\ shutdown_hash' = EmptyHash
    /\ UNCHANGED <<config, files, tails, hash, lock, open_offset, appended,
                   faults_left, writes_left>>

\* The places the second half of blob_read can fail at.
ReadFaults(zero_copy) ==
    IF faults_left = 0 THEN {"none"}
    ELSE IF zero_copy THEN {"none", "dnet_req_alloc", "dnet_data_ready"}
    ELSE {"none", "pread"}

\* blob_read, lines 337-404.  Without a destination buffer the reply names
\* the file range (offset, size) and the transport sends it; with one,
\* pread reads at most the buffer's room, and a result of 0 cells or less
\* is returned as -errno.
blob_read_io(t) ==
    /\ th[t].pc = "read_io"
    /\ LET zero_copy == th[t].req.buf = 0
           size == IF zero_copy THEN th[t].size ELSE Min(th[t].size, th[t].req.buf)
           got == Pread(FileOf(th[t].hist), th[t].offset, size)
       IN \E fp \in ReadFaults(zero_copy) :
          /\ Faulted(IF fp = "none" THEN 0 ELSE 1)
          /\ th' = [th EXCEPT ![t] =
             CASE fp \in {"dnet_req_alloc", "dnet_data_ready"} ->
                    [@ EXCEPT !.pc = "done", !.ret = -ENOMEM, !.err = -ENOMEM,
                              !.failed = TRUE]
               [] fp = "pread" ->
                    [@ EXCEPT !.pc = "done", !.ret = -EIO, !.err = -EIO, !.errno = EIO,
                              !.failed = TRUE]
               [] zero_copy ->
                    [@ EXCEPT !.pc = "done", !.ret = 0, !.out = got, !.size = size]
               [] Len(got) = 0 ->
                    [@ EXCEPT !.pc = "done", !.ret = 0 - th[t].errno,
                              !.err = 0 - th[t].errno]
               [] OTHER ->
                    [@ EXCEPT !.pc = "done", !.ret = 0, !.out = got,
                              !.iosize = Len(got), !.size = size]]
    /\ UNCHANGED <<config, files, tails, hash, lock, open_offset, shutdown_hash,
                   scanned, appended, writes_left>>

\* --------------------------------------------------------- other commands

\* Mutant of blob_del: the key is taken out of the index.
blob_del_erase(t) ==
    /\ t \in Active
    /\ th[t].pc = "idle"
    /\ \E id \in ids :
          /\ th' = [th EXCEPT ![t] =
                    [IdleThread EXCEPT !.pc = "done", !.cmd = "del", !.id = id,
                                       !.ret = 0, !.err = 0]]
          /\ hash' = [k \in DOMAIN hash \ {Key(id, 0)} |-> hash[k]]
    /\ scanned' = FALSE
    /\ shutdown_hash' = EmptyHash
    /\ UNCHANGED <<config, files, tails, lock, open_offset, appended,
                   faults_left, writes_left>>

\* blob_backend_command_handler, DNET_CMD_DEL: blob_del returns -1 and does
\* nothing else.
blob_del(t) ==
    /\ t \in Active
    /\ th[t].pc = "idle"
    /\ \E id \in ids :
          th' = [th EXCEPT ![t] =
                    [IdleThread EXCEPT !.pc = "done", !.cmd = "del", !.id = id,
                                       !.ret = -1, !.err = -1]]
    /\ scanned' = FALSE
    /\ shutdown_hash' = EmptyHash
    /\ UNCHANGED <<config, files, tails, hash, lock, open_offset, appended,
                   faults_left, writes_left>>

\* What the handler's switch gives for DNET_CMD_LIST and for a command it
\* does not know.
UnsupportedErr(cmd) == IF cmd = "list" THEN -ENOTSUP ELSE -EINVAL

\* blob_backend_command_handler, DNET_CMD_LIST and the default branch.
command_unsupported(t) ==
    /\ t \in Active
    /\ th[t].pc = "idle"
    /\ \E cmd \in {"list", "unknown"} :
          th' = [th EXCEPT ![t] =
                    [IdleThread EXCEPT !.pc = "done", !.cmd = cmd,
                                       !.ret = UnsupportedErr(cmd),
                                       !.err = UnsupportedErr(cmd)]]
    /\ scanned' = FALSE
    /\ shutdown_hash' = EmptyHash
    /\ UNCHANGED <<config, files, tails, hash, lock, open_offset, appended,
                   faults_left, writes_left>>

\* blob_backend_command_handler returns err to the transport; the thread is
\* free for the next command.
command_return(t) ==
    /\ th[t].pc = "done"
    /\ th' = [th EXCEPT ![t] = IdleThread]
    /\ UNCHANGED <<config, files, tails, hash, lock, open_offset, shutdown_hash,
                   scanned, appended, faults_left, writes_left>>

\* ----------------------------------------------------------------- restart

\* dnet_blob_config_cleanup with no command running, then the next start of
\* the process on the same files and configuration: dnet_blob_set_data sets
\* each tail to the end of its file (lseek SEEK_END) and
\* dnet_blob_config_init rebuilds the index by scanning both logs.
Restart ==
    /\ \A t \in Threads : th[t].pc = "idle"
    /\ shutdown_hash' = hash
    /\ scanned' = TRUE
    /\ data_offset' = Len(datafd)
    /\ history_offset' = Len(historyfd)
    /\ open_offset' = <<Len(datafd), Len(historyfd)>>
    /\ hash' = dnet_blob_config_init(datafd, historyfd, data_bsize, history_bsize)
    /\ lock' = 0
    /\ UNCHANGED <<config, files, th, appended, faults_left, writes_left>>

\* ------------------------------------------------------------ dnet_recovery

backend_vars_but_cache ==
    <<data_bsize, history_bsize, nthreads, ids, reads, offsets, payloads, files, tails,
      hash, lock, th, faults_left, writes_left, open_offset, shutdown_hash,
      scanned, appended>>
backend_vars_but_diff == <<backend_vars_but_cache, ncache, creply>>
backend_vars == <<backend_vars_but_diff, mdiff, dcdiff>>

\* The process ends: its descriptors are closed, which drops its flock.
Release(fs, p) == [d \in Dirs |-> [fs[d] EXCEPT !.flock = @ \ {p}]]

\* An uncaught exception: the interpreter exits with status 1.
Raise(p, why) ==
    [rproc EXCEPT ![p].pc = "exited", ![p].rc = 1, ![p].fatal = why]

\* Lines 116-125: parse the command line, check the recovery type.  The
\* options that matter later: -D (the tmp directory) and -k (the lock file,
\* empty for none).
recovery_parse_args(p) ==
    /\ rproc[p].pc \in {"none", "exited"}
    /\ \E args_ok \in BOOLEAN, d \in Dirs, k \in BOOLEAN :
          rproc' = IF args_ok
                   THEN [rproc EXCEPT ![p] = [NoProc EXCEPT !.pc = "tmp_dir", !.dir = d,
                                                           !.lock = k]]
                   ELSE [rproc EXCEPT ![p] = [NoProc EXCEPT !.pc = "exited", !.rc = 1,
                                                           !.fatal = "args"]]
    /\ UNCHANGED <<backend_vars, rfs>>

\* Lines 132-140: create the tmp directory when it does not exist;
\* os.makedirs may fail.
recovery_tmp_dir(p) ==
    /\ rproc[p].pc = "tmp_dir"
    /\ LET d == rproc[p].dir
       IN \E makedirs_ok \in BOOLEAN :
          IF rfs[d].exists \/ makedirs_ok
          THEN /\ rfs' = [rfs EXCEPT ![d].exists = TRUE]
               /\ rproc' = [rproc EXCEPT ![p].pc = "log",
                                         ![p].made = IF rfs[d].exists THEN @
                                                     ELSE @ \cup {"tmp_dir"}]
          ELSE /\ rproc' = Raise(p, "tmp_dir")
               /\ UNCHANGED rfs
    /\ UNCHANGED backend_vars

\* Lines 142-159: parse the log level, open the log file in the tmp
\* directory.
recovery_log(p) ==
    /\ rproc[p].pc = "log"
    /\ \E log_level_ok \in BOOLEAN :
          IF log_level_ok
          THEN /\ rfs' = [rfs EXCEPT ![rproc[p].dir].files = @ \cup {LogFile}]
               /\ rproc' = [rproc EXCEPT ![p].pc = "lock",
                                         ![p].made = IF LogFile \in rfs[rproc[p].dir].files
                                                     THEN @ ELSE @ \cup {"log"}]
          ELSE /\ rproc' = Raise(p, "log_level")
               /\ UNCHANGED rfs
    /\ UNCHANGED backend_vars

\* Mutant of recovery_lock: the lock is taken whoever holds it.
recovery_lock_shared(p) ==
    /\ rproc[p].pc = "lock"
    /\ LET d == rproc[p].dir
       IN IF ~rproc[p].lock
          THEN /\ rproc' = [rproc EXCEPT ![p].pc = "options"]
               /\ UNCHANGED rfs
          ELSE /\ rfs' = [rfs EXCEPT ![d].files = @ \cup {LockFile},
                                     ![d].flock = @ \cup {p}]
               /\ rproc' = [rproc EXCEPT ![p].pc = "options",
                                         ![p].made = @ \cup {"lock"}]
    /\ UNCHANGED backend_vars

\* Mutant of recovery_lock: a failed flock is not raised.
recovery_lock_ignored(p) ==
    /\ rproc[p].pc = "lock"
    /\ LET d == rproc[p].dir
       IN IF ~rproc[p].lock
          THEN /\ rproc' = [rproc EXCEPT ![p].pc = "options"]
               /\ UNCHANGED rfs
          ELSE /\ rfs' = [rfs EXCEPT ![d].files = @ \cup {LockFile},
                                     ![d].flock = IF @ \ {p} = {} THEN {p} ELSE @]
               /\ rproc' = [rproc EXCEPT ![p].pc = "options",
                                         ![p].made = @ \cup {"lock"}]
    /\ UNCHANGED backend_vars

\* Lines 161-170: with a lock file configured, open it (O_TRUNC | O_CREAT)
\* and flock it LOCK_EX | LOCK_NB; flock fails at once when another process
\* holds the lock, and the exception ends the process.
recovery_lock(p) ==
    /\ rproc[p].pc = "lock"
    /\ LET d == rproc[p].dir
       IN IF ~rproc[p].lock
          THEN /\ rproc' = [rproc EXCEPT ![p].pc = "options"]
               /\ UNCHANGED rfs
          ELSE IF rfs[d].flock \ {p} = {}
          THEN /\ rfs' = [rfs EXCEPT ![d].files = @ \cup {LockFile},
                                     ![d].flock = {p}]
               /\ rproc' = [rproc EXCEPT ![p].pc = "options",
                                         ![p].made = @ \cup {"lock"}]
          ELSE /\ rfs' = [rfs EXCEPT ![d].files = @ \cup {LockFile}]
               /\ rproc' = [Raise(p, "lock") EXCEPT ![p].made = @ \cup {"lock"}]
    /\ UNCHANGED backend_vars

\* Lines 172-239: check -r, -g, -t, -b, -n, -s, -m, -w.
recovery_options(p) ==
    /\ rproc[p].pc = "options"
    /\ \E ok \in BOOLEAN :
          IF ok
          THEN /\ rproc' = [rproc EXCEPT ![p].pc = "cleanup"]
               /\ UNCHANGED rfs
          ELSE /\ rproc' = Raise(p, "options")
               /\ rfs' = Release(rfs, p)
    /\ UNCHANGED backend_vars

\* cleanup(path), lines 65-72: the entries of the tmp directory it unlinks,
\* the regular files whose names start with a scratch prefix.
Stale(fileset) == {f \in fileset : f.isfile /\ f.prefix \in TMP_FILE_PREFIXES}

\* cleanup(path) when every os.unlink succeeds.
cleanup(fileset) == fileset \ Stale(fileset)

\* Lines 241-248: the monitor, then cleanup(ctx.tmp_dir) inside try/except.
\* os.unlink may raise (a directory without write permission): the sweep
\* ends at its first file, the exception is logged and the script goes on.
recovery_cleanup(p) ==
    /\ rproc[p].pc = "cleanup"
    /\ LET d == rproc[p].dir
       IN \E gone \in {{}, Stale(rfs[d].files)} :
             /\ rfs' = [rfs EXCEPT ![d].files =
                            IF gone = Stale(@) THEN cleanup(@) ELSE @ \ gone]
             /\ rproc' = [rproc EXCEPT ![p].pc = "main",
                                       ![p].made = IF gone = {} THEN @
                                                   ELSE @ \cup {"scratch"}]
    /\ UNCHANGED backend_vars

\* Lines 252-284: node, session and routing table, then the main of the
\* selected recovery type, which leaves scratch files and gives a result.
recovery_main(p) ==
    /\ rproc[p].pc = "main"
    /\ \E routes \in BOOLEAN, result \in BOOLEAN, made \in {{}, ScratchFiles} :
          IF routes
          THEN /\ rfs' = [rfs EXCEPT ![rproc[p].dir].files = @ \cup made]
               /\ rproc' = [rproc EXCEPT ![p].pc = "exit", ![p].result = result]
          ELSE /\ rproc' = Raise(p, "routes")
               /\ rfs' = Release(rfs, p)
    /\ UNCHANGED backend_vars

\* Mutant of ExitCode: rc = int(result).
ExitCode_result(result) == IF result THEN 1 ELSE 0

\* Line 296: rc = int(not result).
ExitCode(result) == IF result THEN 0 ELSE 1

\* Lines 286-298: the statistics are printed, then rc = int(not result);
\* exit(rc).
recovery_exit(p) ==
    /\ rproc[p].pc = "exit"
    /\ rproc' = [rproc EXCEPT ![p].pc = "exited",
                              ![p].rc = ExitCode(rproc[p].result)]
    /\ rfs' = Release(rfs, p)
    /\ UNCHANGED backend_vars

\* -------------------------------------------------------------------- cache

not_cache == <<backend_vars_but_cache, mdiff, dcdiff, rproc, rfs>>

\* cache_t::write: m_hmap[id] = a copy of the data.
cache_write(hmap, id, data) == [k \in DOMAIN hmap \cup {id} |-> IF k = id THEN data ELSE hmap[k]]

\* cache_t::remove: m_hmap.erase(id).
cache_remove(hmap, id) == [k \in DOMAIN hmap \ {id} |-> hmap[k]]

\* The reply of a command: the ids it came with, the cache before it.
Reply(cmd, cid, iid, err, out) ==
    [cmd |-> cmd, cmd_id |-> cid, io_id |-> iid, err |-> err, out |-> out,
     before |-> ncache.hmap]

\* dnet_cmd_cache_io on a node without a cache, or with a command the
\* switch has no case for: -ENOTSUP.
dnet_cmd_cache_io_unsupported ==
    /\ \E cmd \in {"write", "read", "del", "list"}, cid \in CacheIds, iid \in CacheIds :
          /\ ~ncache.present \/ cmd = "list"
          /\ creply' = Reply(cmd, cid, iid, -ENOTSUP, <<>>)
    /\ UNCHANGED <<ncache, not_cache>>

\* dnet_cmd_cache_io, DNET_CMD_WRITE: the data is stored under io->id.
dnet_cmd_cache_io_write ==
    /\ ncache.present
    /\ \E cid \in CacheIds, iid \in CacheIds, data \in Payloads :
          /\ ncache' = [ncache EXCEPT !.hmap = cache_write(@, iid, data)]
          /\ creply' = Reply("write", cid, iid, 0, <<>>)
    /\ UNCHANGED not_cache

\* dnet_cmd_cache_io, DNET_CMD_READ: cache_t::read throws for an id that is
\* not cached and the handler turns that into -ENOENT; a request past the
\* cached size is -EINVAL; otherwise io->size becomes the cached size and
\* that many cells from data() + io->offset are sent, the ones past the end
\* of the buffer being whatever lies there.
dnet_cmd_cache_io_read ==
    /\ ncache.present
    /\ \E cid \in CacheIds, iid \in CacheIds, rq \in CacheReads, junk \in Junk :
          creply' =
             IF iid \notin DOMAIN ncache.hmap
             THEN Reply("read", cid, iid, -ENOENT, <<>>)
             ELSE LET d == ncache.hmap[iid]
                  IN IF rq[1] + rq[2] > Len(d)
                     THEN Reply("read", cid, iid, -EINVAL, <<>>)
                     ELSE Reply("read", cid, iid, 0,
                                SubSeq(d, rq[1] + 1, Len(d)) \o [i \in 1..rq[1] |-> junk])
    /\ UNCHANGED <<ncache, not_cache>>

\* dnet_cmd_cache_io, DNET_CMD_DEL: the case does not assign err, which
\* keeps the value it was initialised with.
CacheDelErr(err) == err

\* dnet_cmd_cache_io, DNET_CMD_DEL: the entry of cmd->id.id is erased.
dnet_cmd_cache_io_del ==
    /\ ncache.present
    /\ \E cid \in CacheIds, iid \in CacheIds :
          /\ ncache' = [ncache EXCEPT !.hmap = cache_remove(@, cid)]
          /\ creply' = Reply("del", cid, iid, CacheDelErr(-ENOTSUP), <<>>)
    /\ UNCHANGED not_cache

\* dnet_cache_init: the node gets an empty cache, or -ENOMEM and none.
dnet_cache_init(ok) == [present |-> ok, hmap |-> EmptyCache]

\* ---------------------------------------------------- recovery coordinators

\* A stream is sorted by id and holds an id once.
SortedById(s) == \A a, b \in 1..Len(s) : a < b => s[a].id < s[b].id
StreamsOver(keys, recs) ==
    {s \in UNION {[1..n -> recs] : n \in 0..Cardinality(keys)} : SortedById(s)}
MergeStreams == StreamsOver(Keys, {Rec(k, t, 4) : k \in Keys, t \in Timestamps})
DcStreams ==
    StreamsOver(DcKeys, {Rec(k, t, z) : k \in DcKeys, t \in Timestamps, z \in Sizes})

\* Mutant of MergeNewer: a local copy as old as the remote one is sent too.
MergeNewer_geq(l, r) == l.ts >= r.ts

\* Merge diff, a key present on both sides: the local copy is the newer.
MergeNewer(l, r) == l.ts > r.ts

\* Merge diff: one step of the pairwise merge of the local and the remote
\* stream by id.  A local key the remote stream has passed is emitted, a
\* remote key the local stream has passed is skipped, a key on both sides
\* is emitted when the local copy is newer.
merge_diff_step ==
    /\ mdiff.on
    /\ mdiff.i <= Len(mdiff.local)
    /\ LET l == mdiff.local[mdiff.i]
           j == mdiff.j
       IN IF j > Len(mdiff.remote) \/ l.id < mdiff.remote[j].id
          THEN mdiff' = [mdiff EXCEPT !.out = @ \cup {l.id}, !.i = @ + 1]
          ELSE IF l.id > mdiff.remote[j].id
          THEN mdiff' = [mdiff EXCEPT !.j = @ + 1]
          ELSE mdiff' = [mdiff EXCEPT
                            !.out = IF MergeNewer(l, mdiff.remote[j])
                                    THEN @ \cup {l.id} ELSE @,
                            !.i = @ + 1, !.j = @ + 1]
    /\ UNCHANGED <<backend_vars_but_diff, rproc, rfs, dcdiff>>

\* The record a replica's stream is at, with the replica's address.
HeadCopy(d, r) == [addr |-> r, ts |-> d.streams[r][d.pos[r]].ts,
               size |-> d.streams[r][d.pos[r]].size]
AtHead(d) == {r \in Replicas : d.pos[r] <= Len(d.streams[r])}
SetMin(S) == CHOOSE x \in S : \A y \in S : x <= y

\* Mutant of Beats: a full tie goes to the higher address.
Beats_highaddr(a, b) ==
    \/ a.ts > b.ts
    \/ a.ts = b.ts /\ a.size > b.size
    \/ a.ts = b.ts /\ a.size = b.size /\ a.addr > b.addr

\* DC diff: copy a wins over copy b by (timestamp, size, -address).
Beats(a, b) ==
    \/ a.ts > b.ts
    \/ a.ts = b.ts /\ a.size > b.size
    \/ a.ts = b.ts /\ a.size = b.size /\ a.addr < b.addr

\* The winner among the copies of one id: taken in turn, a copy replaces
\* the best one so far when it wins over it.
RECURSIVE winner(_, _)
winner(best, copies) ==
    IF copies = {}
    THEN best
    ELSE LET c == CHOOSE x \in copies : \A y \in copies : x.addr <= y.addr
         IN winner(IF Beats(c, best) THEN c ELSE best, copies \ {c})

\* A replica is stale for an id when it has no copy or an older or smaller
\* one than the winner's.
StaleCopy(w, holders, r) ==
    \/ \A c \in holders : c.addr /= r
    \/ \E c \in holders :
          c.addr = r /\ (c.ts < w.ts \/ (c.ts = w.ts /\ c.size < w.size))

\* DC diff: one step of the simultaneous merge of the replicas' streams:
\* the lowest id at the head of a stream, its winner, and a transfer from
\* the winner to each stale replica.
dc_diff_step ==
    /\ dcdiff.on
    /\ AtHead(dcdiff) /= {}
    /\ LET d == dcdiff
           id == SetMin({d.streams[r][d.pos[r]].id : r \in AtHead(d)})
           at == {r \in AtHead(d) : d.streams[r][d.pos[r]].id = id}
           holders == {HeadCopy(d, r) : r \in at}
           first == CHOOSE x \in holders : \A y \in holders : x.addr <= y.addr
           w == winner(first, holders \ {first})
       IN dcdiff' = [d EXCEPT
                        !.out = @ \cup {[id |-> id, from |-> w.addr, to |-> r] :
                                           r \in {q \in Replicas \ {w.addr} :
                                                     StaleCopy(w, holders, q)}},
                        !.pos = [r \in Replicas |->
                                    IF r \in at THEN d.pos[r] + 1 ELSE d.pos[r]]]
    /\ UNCHANGED <<backend_vars_but_diff, rproc, rfs, mdiff>>

\* ------------------------------------------------------------ specification

Next ==
    \/ \E t \in Threads :
          \/ blob_write(t)
          \/ blob_write_raw_lock(t)
          \/ blob_write_raw_header(t)
          \/ blob_write_raw_data(t)
          \/ blob_write_raw_pad(t)
          \/ blob_write_raw_hash(t)
          \/ blob_write_raw_unlock(t)
          \/ blob_write_history_meta(t)
          \/ blob_read(t)
          \/ blob_read_io(t)
          \/ blob_del(t)
          \/ command_unsupported(t)
          \/ command_return(t)
    \/ Restart

NextRecovery ==
    \E p \in Procs :
        \/ recovery_parse_args(p)
        \/ recovery_tmp_dir(p)
        \/ recovery_log(p)
        \/ recovery_lock(p)
        \/ recovery_options(p)
        \/ recovery_cleanup(p)
        \/ recovery_main(p)
        \/ recovery_exit(p)

\* Invocations of dnet_recovery on tmp directories that hold scratch files
\* of earlier runs; the backend does not run.
InitRecovery ==
    /\ InitWith(0, 1, 0, {1}, {}, {0}, {}, {<<0, 0>>})
    /\ DiffIdle
    /\ CacheIdle
    /\ rproc = [p \in Procs |-> NoProc]
    /\ \E left \in {{}, Leftovers} :
          rfs = [d \in Dirs |-> [exists |-> d = 1,
                                  files |-> IF d = 1 THEN left ELSE {}, flock |-> {}]]

SpecRecovery == InitRecovery /\ [][NextRecovery]_vars

NextDiff == merge_diff_step \/ dc_diff_step

\* One diff of a coordinator, on the streams its iterators returned; the
\* backend and the driver do not run.
InitDiff ==
    /\ InitWith(0, 1, 0, {1}, {}, {0}, {}, {<<0, 0>>})
    /\ CacheIdle
    /\ rproc = [p \in Procs |-> NoProc]
    /\ rfs = [d \in Dirs |-> [exists |-> d = 1, files |-> {}, flock |-> {}]]
    /\ \/ /\ \E a \in MergeStreams, r \in MergeStreams :
                mdiff = [NoMerge EXCEPT !.local = a, !.remote = r, !.on = TRUE]
          /\ dcdiff = NoDc
       \/ /\ mdiff = NoMerge
          /\ \E ss \in [Replicas -> DcStreams] :
                dcdiff = [NoDc EXCEPT !.streams = ss, !.on = TRUE]

SpecDiff == InitDiff /\ [][NextDiff]_vars

NextCache ==
    \/ dnet_cmd_cache_io_unsupported
    \/ dnet_cmd_cache_io_write
    \/ dnet_cmd_cache_io_read
    \/ dnet_cmd_cache_io_del

\* A node after dnet_cache_init and the cache commands on it; the backend
\* and the recovery do not run.
InitCache ==
    /\ InitWith(0, 1, 0, {1}, {}, {0}, {}, {<<0, 0>>})
    /\ DiffIdle
    /\ \E ok \in BOOLEAN : ncache = dnet_cache_init(ok)
    /\ creply = NoReply
    /\ rproc = [p \in Procs |-> NoProc]
    /\ rfs = [d \in Dirs |-> [exists |-> d = 1, files |-> {}, flock |-> {}]]

SpecCache == InitCache /\ [][NextCache]_vars

\* One worker thread, no failing system calls.
Spec == Init /\ [][Next]_vars
\* One worker thread, system calls and allocations may fail.
SpecFault == InitFault /\ [][Next]_vars
\* Two worker threads.
SpecConc == InitConc /\ [][Next]_vars

\* ------------------------------------------------------------------ claims

\* A thread that has just completed a successful append: blob_write_raw has
\* published the index entry and the tail and is about to release the mutex.
Appended(t) == th[t].pc = "raw_unlock" /\ th[t].err = 0 /\ ~th[t].failed

\* C1: immediately after each successful append (data or history) the index
\* entry of the key just written ends at the tail of that log:
\* index[key].offset + index[key].size = tail.
C1_AppendEndsAtTail ==
    \A t \in Threads :
        Appended(t) =>
            LET key == Key(th[t].id, th[t].hist)
            IN /\ dnet_hash_lookup(hash, key)
               /\ hash[key].offset + hash[key].size = TailOf(th[t].hist)

\* C1 witness: a successful append that was not the first one of its log
\* and carried padding.
C1_Witness ==
    \E t \in Threads :
        /\ Appended(t)
        /\ th[t].ctl.offset > 0
        /\ th[t].ctl.size > HdrSize + th[t].iosize

\* C2 as stated: after a successful append on a log with block size B > 0
\* the tail is a multiple of B, whatever tail the backend started with.
C2_TailMultipleOfBlock ==
    \A t \in Threads :
        (Appended(t) /\ BsizeOf(th[t].hist) > 0) =>
            TailOf(th[t].hist) % BsizeOf(th[t].hist) = 0

\* What blob_write_raw does guarantee for C2's case: after a successful
\* append on a log with block size B > 0 the tail differs by a multiple of
\* B from the tail dnet_blob_set_data set when the file was opened; it is a
\* multiple of B when that tail was.
C2_TailAlignedFromOpen ==
    \A t \in Threads :
        (Appended(t) /\ BsizeOf(th[t].hist) > 0) =>
            LET B == BsizeOf(th[t].hist)
                opened == open_offset[th[t].hist + 1]
            IN /\ (TailOf(th[t].hist) - opened) % B = 0
               /\ (opened % B = 0 => TailOf(th[t].hist) % B = 0)

\* C2's case: a successful, padded append on a log with B > 0 that was
\* opened at a tail that is no multiple of B.
C2_Witness ==
    \E t \in Threads :
        /\ Appended(t)
        /\ BsizeOf(th[t].hist) > 0
        /\ open_offset[th[t].hist + 1] % BsizeOf(th[t].hist) /= 0
        /\ th[t].ctl.size > HdrSize + th[t].iosize

\* A thread whose READ of the whole record (io.offset 0, io.size 0, zero
\* copy or a buffer with room for it) of a key has returned.
WholeReadDone(t, hist) ==
    /\ th[t].pc = "done"
    /\ th[t].cmd = "read"
    /\ th[t].hist = hist
    /\ th[t].req.offset = 0
    /\ th[t].req.size = 0
    /\ th[t].req.buf \in {0, 8}

\* C3: after a successful WRITE of payload v under id, a READ of id with
\* io.offset 0 and io.size 0 returns exactly the cells of v (no header, no
\* padding), for every block size.
C3_ReadReturnsPayload ==
    \A t \in Threads :
        (WholeReadDone(t, 0) /\ Written(th[t].id, 0) /= <<>>) =>
            /\ th[t].ret = 0
            /\ th[t].out = Last(Written(th[t].id, 0)).data

\* C4: after WRITE(id, v1) and WRITE(id, v2) a READ of id returns v2, the
\* first data record is still in the data log unchanged, and the index
\* entry of (id, DATA) points at the second record, not the first.
C4_OverwriteReadsSecond ==
    \A t \in Threads :
        LET w == Written(th[t].id, 0)
            key == Key(th[t].id, 0)
        IN (WholeReadDone(t, 0) /\ Len(w) = 2) =>
              /\ th[t].ret = 0
              /\ th[t].out = w[2].data
              /\ Pread(datafd, w[1].offset, HdrSize + Len(w[1].data))
                    = DiskControl(th[t].id, 0, Len(w[1].data)) \o w[1].data
              /\ hash[key].offset = w[2].offset
              /\ hash[key].offset /= w[1].offset

\* The part of C4 that does not rest on what a READ returns: with two data
\* records of an id appended, the first is still in the log unchanged and
\* the index points at the second.
C4_IndexPointsAtSecond ==
    \A id \in Ids :
        LET w == Written(id, 0)
            key == Key(id, 0)
        IN Len(w) = 2 =>
              /\ Pread(datafd, w[1].offset, HdrSize + Len(w[1].data))
                    = DiskControl(id, 0, Len(w[1].data)) \o w[1].data
              /\ dnet_hash_lookup(hash, key)
              /\ hash[key].offset = w[2].offset
              /\ hash[key].offset /= w[1].offset

\* C5: the index rebuilt by the startup scan of both logs is exactly the
\* index the process had at shutdown: the same keys, and for each key the
\* same (offset, on-disk size).
C5_RebuildEqualsShutdown ==
    scanned => hash = shutdown_hash

\* C6: with a nonzero block size B configured for a log, the on-disk size
\* of every index entry of that log is a multiple of B, for entries made by
\* a live append and for entries made by the startup scan.
C6_IndexSizesAligned ==
    \A key \in DOMAIN hash :
        BsizeOf(key[2]) > 0 => hash[key].size % BsizeOf(key[2]) = 0

\* C10: a READ whose range exceeds the stored record's payload
\* (io.offset + io.size > payload size) fails with -EINVAL and returns no
\* data.
C10_ReadPastRecordIsInvalid ==
    \A t \in Threads :
        (/\ th[t].pc = "done"
         /\ th[t].cmd = "read"
         /\ th[t].ctl.size > 0
         /\ th[t].req.offset + th[t].req.size
               > HeaderAt(FileOf(th[t].hist), th[t].ctl.offset).size) =>
            /\ th[t].ret = -EINVAL
            /\ th[t].out = <<>>

\* C7: when a step of an append fails (the header, payload or padding
\* write, or the index insert), blob_write_raw returns an error, the log's
\* tail is not advanced and the index is as it was before the append.
C7_FailedAppendLeavesTailAndIndex ==
    \A t \in Threads :
        (th[t].pc = "raw_unlock" /\ th[t].failed) =>
            /\ th[t].err /= 0
            /\ TailOf(th[t].hist) = th[t].pre.tail
            /\ hash = th[t].pre.hash

\* C7 witness: a failed append of a key that has an index entry, with
\* cells of the failed record already in the file past the tail.
C7_Witness ==
    \E t \in Threads :
        /\ th[t].pc = "raw_unlock"
        /\ th[t].failed
        /\ dnet_hash_lookup(hash, Key(th[t].id, th[t].hist))
        /\ Len(FileOf(th[t].hist)) > TailOf(th[t].hist)

\* The cells of an appended record as they must be in its log: header,
\* payload, zero padding.  (The flags cell is left out: a later history
\* update sets BLOB_DISK_CTL_REMOVE in it.)
RecordOnDisk(r, hist) ==
    LET f == files[hist + 1]
    IN /\ r.offset + r.size <= Len(f)
       /\ HeaderAt(f, r.offset).id = r.id
       /\ HeaderAt(f, r.offset).size = Len(r.data)
       /\ Pread(f, r.offset + HdrSize, r.size - HdrSize)
             = r.data \o Zeros(r.size - HdrSize - Len(r.data))

\* C8: with several threads appending to the same log, the ranges
\* [offset, offset + on_disk_size) of any two successfully appended records
\* are disjoint and every appended record's cells are its own: no cell of
\* another record was written inside its range.
C8_AppendedRangesDisjoint ==
    \A hist \in {0, 1} :
        LET a == appended[hist + 1]
        IN /\ \A i, j \in 1..Len(a) :
                 i < j => a[i].offset + a[i].size <= a[j].offset
           /\ \A i \in 1..Len(a) : RecordOnDisk(a[i], hist)

\* C8 witness: a thread has appended a record and still holds the mutex
\* while another thread waits to append to the same log.
C8_Witness ==
    \E a, b \in Threads :
        /\ a /= b
        /\ Appended(a)
        /\ lock = a
        /\ th[b].pc = "raw_lock"
        /\ th[a].hist = th[b].hist
        /\ Len(appended[th[a].hist + 1]) > 0

\* C9: a READ concurrent with a WRITE to the same id sees the state before
\* or after the write.  Every index entry points at a record whose header,
\* payload and padding are completely in the file, and a completed READ of
\* the whole record returns the payload of one appended record of that id
\* (followed by nothing but cells of its padding).
C9_NoTornRecordVisible ==
    /\ \A key \in DOMAIN hash :
          \E i \in 1..Len(appended[key[2] + 1]) :
             LET r == appended[key[2] + 1][i]
             IN /\ r.id = key[1]
                /\ r.offset = hash[key].offset
                /\ hash[key].size >= HdrSize + Len(r.data)
                /\ hash[key].size <= r.size
                /\ RecordOnDisk(r, key[2])
    /\ \A t \in Threads :
          (WholeReadDone(t, th[t].hist) /\ th[t].ret = 0) =>
             \E i \in 1..Len(appended[th[t].hist + 1]) :
                LET r == appended[th[t].hist + 1][i]
                IN /\ r.id = th[t].id
                   /\ Len(th[t].out) >= Len(r.data)
                   /\ Len(th[t].out) <= r.size - HdrSize
                   /\ th[t].out = r.data \o Zeros(Len(th[t].out) - Len(r.data))

\* C9 witness: a READ has looked an id up and not yet read the file while
\* another thread is writing a record of the same id to the same log, part
\* of it already in the file.
C9_Witness ==
    \E a, b \in Threads :
        /\ a /= b
        /\ th[a].pc = "read_io"
        /\ th[b].pc \in {"raw_data", "raw_pad"}
        /\ th[a].id = th[b].id
        /\ th[a].hist = th[b].hist
        /\ Len(FileOf(th[b].hist)) > TailOf(th[b].hist)

\* C11: every failure inside a command handler is returned to the transport
\* as a negative error code: a handler whose I/O step failed (a failed or
\* short pread or pwrite, a failed allocation) never returns 0, and DEL,
\* LIST and unknown commands return a negative code.
C11_FailureReturnsNegative ==
    \A t \in Threads :
        th[t].pc = "done" =>
            /\ th[t].failed => th[t].ret < 0
            /\ th[t].cmd \in {"del", "list", "unknown"} => th[t].ret < 0

\* C12: a READ of a key that is not in the index returns the not-found
\* error and leaves the index, both logs, both tails and the reply buffer
\* unchanged.
C12_ReadMissingKeyNotFound ==
    [][\A t \in Threads :
          (/\ th[t].pc = "idle"
           /\ th'[t].cmd = "read"
           /\ ~dnet_hash_lookup(hash, Key(th'[t].id, th'[t].hist))) =>
             /\ th'[t].pc = "done"
             /\ th'[t].ret = -ENOENT
             /\ th'[t].out = <<>>
             /\ UNCHANGED <<hash, files, tails>>]_vars

\* C12 witness: a READ of an absent key has returned while the index holds
\* other keys.
C12_Witness ==
    \E t \in Threads :
        /\ th[t].pc = "done"
        /\ th[t].cmd = "read"
        /\ ~dnet_hash_lookup(hash, Key(th[t].id, th[t].hist))
        /\ th[t].ret = -ENOENT
        /\ DOMAIN hash /= {}

\* C13: a WRITE without DNET_IO_FLAGS_HISTORY appends one data record and,
\* unless NO_HISTORY_UPDATE is set, one history record of the same id whose
\* blob ends with the entry (logical offset, size) of the write; with
\* NO_HISTORY_UPDATE the history log and its tail are unchanged; with
\* DNET_IO_FLAGS_HISTORY only the history log is written.
C13_WriteAppendsDataAndHistory ==
    \A t \in Threads :
        (th[t].pc = "done" /\ th[t].cmd = "write" /\ th[t].ret = 0 /\ ~th[t].failed) =>
            LET s == th[t].start
                rq == th[t].req
                d == appended[1]
                h == appended[2]
            IN IF "HISTORY" \in rq.flags
               THEN /\ datafd = s.files[1]
                    /\ data_offset = s.tails[1]
                    /\ Len(d) = s.nrec[1]
                    /\ Len(h) = s.nrec[2] + 1
                    /\ Last(h).id = rq.id
               ELSE /\ Len(d) = s.nrec[1] + 1
                    /\ Last(d).id = rq.id
                    /\ Last(d).data = rq.data
                    /\ Last(d).offset = s.tails[1]
                    /\ RecordOnDisk(Last(d), 0)
                    /\ IF "NO_HISTORY_UPDATE" \in rq.flags
                       THEN /\ historyfd = s.files[2]
                            /\ history_offset = s.tails[2]
                            /\ Len(h) = s.nrec[2]
                       ELSE /\ Len(h) = s.nrec[2] + 1
                            /\ Last(h).id = rq.id
                            /\ Len(Last(h).data) >= EntrySize
                            /\ SubSeq(Last(h).data, Len(Last(h).data) - EntrySize + 1,
                                      Len(Last(h).data)) = <<rq.offset, rq.size>>
                            /\ RecordOnDisk(Last(h), 1)

\* C13 witness: a WRITE with NO_HISTORY_UPDATE has returned 0 on a backend
\* whose history log holds a record of the same id.
C13_Witness ==
    \E t \in Threads :
        /\ th[t].pc = "done"
        /\ th[t].cmd = "write"
        /\ th[t].ret = 0
        /\ "NO_HISTORY_UPDATE" \in th[t].req.flags
        /\ Written(th[t].id, 1) /= <<>>

\* C14: after a successful history update of an id that already had a
\* history record (the one the update found in the index), the header of
\* that prior record carries BLOB_DISK_CTL_REMOVE, the new record was
\* appended at the old history tail, and the index entry of (id, HISTORY)
\* points at the new record.
C14_HistoryUpdateReplaces ==
    \A t \in Threads :
        LET key == Key(th[t].id, 1)
        IN (Appended(t) /\ th[t].hist = 1 /\ th[t].old.found) =>
              /\ HeaderAt(historyfd, th[t].old.offset).flags % 2 = BLOB_DISK_CTL_REMOVE
              /\ HeaderAt(historyfd, th[t].old.offset).id = th[t].id
              /\ Last(appended[2]).offset = th[t].pre.tail
              /\ Last(appended[2]).id = th[t].id
              /\ RecordOnDisk(Last(appended[2]), 1)
              /\ dnet_hash_lookup(hash, key)
              /\ hash[key].offset = th[t].pre.tail
              /\ hash[key].offset /= th[t].old.offset

\* C14 witness: a history record of an id that had one has just been
\* appended.
C14_Witness ==
    \E t \in Threads :
        /\ Appended(t)
        /\ th[t].hist = 1
        /\ th[t].old.found
        /\ Len(Written(th[t].id, 1)) >= 2

\* C15: data_tail and history_tail never decrease: in every step, those of
\* failed commands included, each tail is at least its previous value.
C15_TailsNeverDecrease ==
    [][/\ data_offset' >= data_offset
       /\ history_offset' >= history_offset]_vars

\* C15 witness: an append has failed on a log whose tail had advanced
\* before, with cells of the failed record in the file.
C15_Witness ==
    \E t \in Threads :
        /\ th[t].pc = "raw_unlock"
        /\ th[t].failed
        /\ TailOf(th[t].hist) > 0
        /\ Len(FileOf(th[t].hist)) > TailOf(th[t].hist)
        /\ appended[th[t].hist + 1] /= <<>>

\* C16: at the end of the startup scan the tail of each log is the final
\* scanned offset, the end of the last complete record, so that a truncated
\* trailing record is overwritten by the next append.
C16_ScanTailIsLastRecordEnd ==
    scanned =>
        /\ data_offset = blob_iterate_end(datafd, data_bsize, 0)
        /\ history_offset = blob_iterate_end(historyfd, history_bsize, 0)

\* C17: a DEL command returns an error and changes nothing: the index, both
\* logs and both tails are after DEL what they were before, so a key
\* written before DEL is still in the index, its record still in the log.
C17_DelFailsAndChangesNothing ==
    [][\A t \in Threads :
          (th[t].pc = "idle" /\ th'[t].cmd = "del") =>
             /\ th'[t].pc = "done"
             /\ th'[t].ret < 0
             /\ UNCHANGED <<hash, files, tails>>]_vars

\* C17 witness: a DEL of an id whose data record is in the index has
\* returned.
C17_Witness ==
    \E t \in Threads :
        /\ th[t].pc = "done"
        /\ th[t].cmd = "del"
        /\ th[t].ret = -1
        /\ dnet_hash_lookup(hash, Key(th[t].id, 0))

\* C18: writing the same (id, payload) twice leaves exactly one index entry
\* for (id, DATA), and the data log has grown by two record-sized regions:
\* the second record follows the first and the tail is past the first
\* record's offset by twice the record's on-disk size.
C18_SameWriteTwice ==
    \A t \in Threads :
        LET d == appended[1]
            n == Len(d)
        IN (/\ Appended(t)
            /\ th[t].hist = 0
            /\ n >= 2
            /\ d[n - 1].id = d[n].id
            /\ d[n - 1].data = d[n].data) =>
              /\ Cardinality({k \in DOMAIN hash : k = Key(d[n].id, 0)}) = 1
              /\ hash[Key(d[n].id, 0)] = [offset |-> d[n].offset, size |-> d[n].size]
              /\ d[n].size = d[n - 1].size
              /\ d[n].offset = d[n - 1].offset + d[n].size
              /\ data_offset = d[n - 1].offset + 2 * d[n].size
              /\ RecordOnDisk(d[n - 1], 0)
              /\ RecordOnDisk(d[n], 0)

\* C18 witness: the second of two equal writes has just been appended, the
\* record carrying padding.
C18_Witness ==
    \E t \in Threads :
        LET d == appended[1]
            n == Len(d)
        IN /\ Appended(t)
           /\ th[t].hist = 0
           /\ n >= 2
           /\ d[n - 1].id = d[n].id
           /\ d[n - 1].data = d[n].data
           /\ d[n].size > HdrSize + Len(d[n].data)

\* C19: the logs are append-only.  No cell of the data log below data_tail
\* is ever modified; in the history log the only cells below history_tail
\* that change are the flags cell of an indexed record's header, which gets
\* BLOB_DISK_CTL_REMOVE, with the header's id and size and the length of
\* the file unchanged; no file ever gets shorter.
C19_LogsAppendOnly ==
    [][/\ Len(datafd') >= Len(datafd)
       /\ Len(historyfd') >= Len(historyfd)
       /\ \A i \in 1..data_offset : datafd'[i] = datafd[i]
       /\ \A i \in 1..history_offset :
             historyfd'[i] /= historyfd[i] =>
                /\ \E key \in DOMAIN hash :
                      key[2] = 1 /\ i = hash[key].offset + 2
                /\ historyfd[i] % 2 = 0
                /\ historyfd'[i] = historyfd[i] + BLOB_DISK_CTL_REMOVE
                /\ Len(historyfd') = Len(historyfd)]_vars

\* C19 witness: below the history tail lies a record whose header has been
\* marked REMOVED in place, followed by the record that replaced it.
C19_Witness ==
    \E i \in 1..Len(appended[2]) :
        /\ appended[2][i].offset + appended[2][i].size <= history_offset
        /\ HeaderAt(historyfd, appended[2][i].offset).flags = BLOB_DISK_CTL_REMOVE
        /\ i < Len(appended[2])

\* An invocation that has a lock file configured and is past the
\* lock-acquisition step, still running.
PastLock(p) ==
    rproc[p].lock /\ rproc[p].pc \in {"options", "cleanup", "main", "exit"}

FatalConditions == {"args", "tmp_dir", "log_level", "lock", "options"}

\* C21: an invocation that has aborted on a fatal condition (unparseable
\* command line, missing -r, bad -b/-n/-s, lock contention, unwritable tmp
\* directory) has created no tmp directory, created or truncated no log or
\* lock file, and removed no scratch file.
C21_FatalAbortMutatesNothing ==
    \A p \in Procs :
        (rproc[p].pc = "exited" /\ rproc[p].fatal \in FatalConditions)
            => rproc[p].made = {}

\* The regular files of a directory listing that carry a scratch prefix.
PrefixedRegular(fileset) ==
    {f \in fileset : f.isfile /\ f.prefix \in {"iterator_", "diff_", "merge_"}}

\* C22: an invocation reaches the setup of the elliptics client (routing
\* table, iterators) only through the cleanup sweep, and the sweep removes
\* from the tmp directory every regular file whose name starts with
\* iterator_, diff_ or merge_ and nothing else.
C22_CleanupRemovesScratchOnly ==
    [][\A p \in Procs :
          (rproc'[p].pc = "main" /\ rproc[p].pc /= "main") =>
              /\ rproc[p].pc = "cleanup"
              /\ rfs'[rproc[p].dir].files =
                     rfs[rproc[p].dir].files \ PrefixedRegular(rfs[rproc[p].dir].files)]_vars

\* What holds of the sweep whether or not os.unlink fails: nothing but
\* prefixed regular files is removed, before the client is set up.
C22_SweepRemovesNoOtherFile ==
    [][\A p \in Procs :
          (rproc'[p].pc = "main" /\ rproc[p].pc /= "main") =>
              /\ rproc[p].pc = "cleanup"
              /\ rfs[rproc[p].dir].files \ rfs'[rproc[p].dir].files
                     \subseteq PrefixedRegular(rfs[rproc[p].dir].files)]_vars

IdsOf(s) == {s[n].id : n \in 1..Len(s)}
IndexOf(s, k) == (CHOOSE n \in 1..Len(s) : s[n].id = k)
MergeDone == mdiff.on /\ mdiff.i > Len(mdiff.local)

\* C24: when the merge diff of a local stream A and a remote stream R has
\* ended, the emitted set is exactly the keys of A that R does not have or
\* whose timestamp in A is strictly greater than their timestamp in R.
C24_MergeDiffTransferSet ==
    MergeDone =>
        mdiff.out =
            {k \in IdsOf(mdiff.local) :
                \/ k \notin IdsOf(mdiff.remote)
                \/ mdiff.local[IndexOf(mdiff.local, k)].ts
                      > mdiff.remote[IndexOf(mdiff.remote, k)].ts}

\* C24 witness: local [(1, t=5), (2, t=7)], remote [(1, t=7)]: the diff has
\* ended and emitted key 2 alone.
C24_Witness ==
    /\ MergeDone
    /\ mdiff.local = <<Rec(1, 5, 4), Rec(2, 7, 4)>>
    /\ mdiff.remote = <<Rec(1, 7, 4)>>
    /\ mdiff.out = {2}

DcDone == dcdiff.on /\ AtHead(dcdiff) = {}
\* The copies of id k the replicas reported.
CopiesOf(k) ==
    {[addr |-> r,
      ts |-> dcdiff.streams[r][IndexOf(dcdiff.streams[r], k)].ts,
      size |-> dcdiff.streams[r][IndexOf(dcdiff.streams[r], k)].size] :
        r \in {q \in Replicas : k \in IdsOf(dcdiff.streams[q])}}

\* C25: when the DC diff of the replicas' streams has ended, for each id
\* some replica reported there is a winner with the highest timestamp,
\* among those the highest size, among those the lowest address, and the
\* transfers emitted for the id go from the winner to exactly the replicas
\* that have no copy or an older or smaller one.
C25_DcWinnerAndTransfers ==
    DcDone =>
        \A k \in DcKeys :
            LET copies == CopiesOf(k)
                sent == {t \in dcdiff.out : t.id = k}
            IN IF copies = {}
               THEN sent = {}
               ELSE \E w \in copies :
                      /\ \A c \in copies : c.ts <= w.ts
                      /\ \A c \in copies : c.ts = w.ts => c.size <= w.size
                      /\ \A c \in copies :
                            (c.ts = w.ts /\ c.size = w.size) => w.addr <= c.addr
                      /\ sent =
                            {[id |-> k, from |-> w.addr, to |-> q] :
                                q \in {r \in Replicas \ {w.addr} :
                                         \A c \in copies :
                                            c.addr = r =>
                                               \/ c.ts < w.ts
                                               \/ c.ts = w.ts /\ c.size < w.size}}

\* C25 witness: the replicas report (1, t=5), (1, t=7, size 4) and
\* (1, t=7, size 10): replica 3 wins and transfers go to replicas 1 and 2.
C25_Witness ==
    /\ DcDone
    /\ dcdiff.streams = <<<<Rec(1, 5, 10)>>, <<Rec(1, 7, 4)>>, <<Rec(1, 7, 10)>>>>
    /\ dcdiff.out = {[id |-> 1, from |-> 3, to |-> 1], [id |-> 1, from |-> 3, to |-> 2]}

\* A data WRITE with history tracking has returned success.
TrackedWriteDone(t) ==
    /\ th[t].pc = "done"
    /\ th[t].cmd = "write"
    /\ th[t].req.flags = {}
    /\ th[t].ret = 0
    /\ ~th[t].failed

\* The history records of an id in the log that are not marked REMOVED.
LiveHistory(id) ==
    {i \in 1..Len(appended[2]) :
        /\ appended[2][i].id = id
        /\ HeaderAt(historyfd, appended[2][i].offset).flags % 2 = 0}

\* C26: when two threads have both returned success from data WRITEs with
\* history tracking to the same id, the only writes so far, the history
\* blob the index references for the id holds the entries of both writes,
\* and exactly one history record of the id is not marked REMOVED.
C26_NoHistoryUpdateLost ==
    \A a, b \in Threads :
        (/\ a /= b
         /\ TrackedWriteDone(a)
         /\ TrackedWriteDone(b)
         /\ th[a].id = th[b].id
         /\ MaxWritesConc - writes_left = 2) =>
            LET key == Key(th[a].id, 1)
                both == dnet_setup_history_entry(th[a].req.size, th[a].req.offset)
                            \o dnet_setup_history_entry(th[b].req.size, th[b].req.offset)
            IN /\ dnet_hash_lookup(hash, key)
               /\ HeaderAt(historyfd, hash[key].offset).size = Len(both)
               /\ Pread(historyfd, hash[key].offset + HdrSize, Len(both)) = both
               /\ Cardinality(LiveHistory(th[a].id)) = 1

\* C27: with no command in progress, after failed history updates too, no
\* index entry references a record whose header in the file carries the
\* REMOVED flag.
C27_IndexNeverReferencesRemoved ==
    (\A t \in Threads : th[t].pc = "idle") =>
        \A key \in DOMAIN hash :
            HeaderAt(FileOf(key[2]), hash[key].offset).flags % 2 = 0

\* C28: with a lock file configured, an invocation runs the cleanup sweep
\* only while it holds the exclusive lock of its tmp directory, and an
\* invocation that failed to take the lock has removed no scratch file.
C28_SweepOnlyUnderLock ==
    [][\A p \in Procs :
          /\ (rproc[p].lock /\ rproc[p].pc = "cleanup" /\ rproc'[p].pc = "main")
                => rfs[rproc[p].dir].flock = {p}
          /\ rproc'[p].fatal = "lock" => "scratch" \notin rproc'[p].made]_vars

\* C28 witness: the holder of the lock has swept scratch files away and is
\* in its main while another invocation on the same tmp directory and
\* lock file has failed at the lock.
C28_Witness ==
    \E p, q \in Procs :
        /\ p /= q
        /\ rproc[p].dir = rproc[q].dir
        /\ rproc[p].lock
        /\ rproc[p].pc = "main"
        /\ "scratch" \in rproc[p].made
        /\ rfs[rproc[p].dir].flock = {p}
        /\ rproc[q].fatal = "lock"

\* The last cache command came with one id in the command and in the io
\* attribute and ran on a node with a cache.
CacheCommand(cmd) ==
    ncache.present /\ creply.cmd = cmd /\ creply.cmd_id = creply.io_id

\* C29: on a node with a cache, WRITE(id, v) returns 0 and caches v, DEL
\* of an id returns 0 and leaves no entry of the id, and READ of an id that
\* is not cached returns -ENOENT and leaves the cache as it was.
C29_CacheWriteDelReadMissing ==
    /\ CacheCommand("write") =>
          /\ creply.err = 0
          /\ creply.io_id \in DOMAIN ncache.hmap
    /\ CacheCommand("del") =>
          /\ creply.err = 0
          /\ creply.cmd_id \notin DOMAIN ncache.hmap
    /\ (CacheCommand("read") /\ creply.io_id \notin DOMAIN creply.before) =>
          /\ creply.err = -ENOENT
          /\ ncache.hmap = creply.before

\* What the handler gives: as C29 but for the code DEL returns, which is
\* -ENOTSUP.
C29_CacheDelReturnsENOTSUP ==
    /\ CacheCommand("write") =>
          /\ creply.err = 0
          /\ creply.io_id \in DOMAIN ncache.hmap
    /\ CacheCommand("del") =>
          /\ creply.err = -ENOTSUP
          /\ creply.cmd_id \notin DOMAIN ncache.hmap
    /\ (CacheCommand("read") /\ creply.io_id \notin DOMAIN creply.before) =>
          /\ creply.err = -ENOENT
          /\ ncache.hmap = creply.before

=============================================================================
